---- MODULE Spec2Model ----
(***************************************************************************)
(* Password-protection / encryption detector (sertaac/encryptionproject).  *)
(*                                                                         *)
(* The model follows EncryptionProject/password_detector_package:          *)
(*   detector.py       PasswordProtectionDetector (analyze_file,           *)
(*                     scan_directory)                                     *)
(*   sync_detector.py  SynchronousPasswordProtectionDetector               *)
(*   file_handlers.py  the ten format handlers                             *)
(*   type_utils.py     FileTypeDetector                                    *)
(* and EncryptionProjectUpdated/password_detector_package/entropy.py       *)
(* (EntropyAnalyzer) and scripts/run_detector.py (the CLI).                *)
(***************************************************************************)
EXTENDS Integers, Sequences, FiniteSets, TLC

(***************************************************************************)
(* IEEE-754 binary64 values of the confidence arithmetic.                  *)
(*                                                                         *)
(* Every score the program computes is a non-negative double below 4 that  *)
(* is a whole multiple of 2^-56.  A value v is kept exactly, as the pair   *)
(* <<hi, lo>> with v = (hi * 2^28 + lo) * 2^-56 and 0 <= lo < 2^28, so     *)
(* that both limbs fit the model checker's integers.  Addition and         *)
(* subtraction compute the exact result and round it to 53 significant     *)
(* bits, ties to even, as Python's float does.                             *)
(***************************************************************************)
Limb == 2^28

F0_0 == <<0, 0>>
F0_1 == <<26843545, 161061274>>
F0_2 == <<53687091, 53687092>>
F0_3 == <<80530636, 214748364>>
F0_4 == <<107374182, 107374184>>
F0_5 == <<134217728, 0>>
F0_6 == <<161061273, 161061272>>
F0_7 == <<187904819, 53687088>>
F0_8 == <<214748364, 214748368>>
F0_9 == <<241591910, 107374184>>
F1_0 == <<268435456, 0>>

FLt(a, b) == a[1] < b[1] \/ (a[1] = b[1] /\ a[2] < b[2])

FGt(a, b) == FLt(b, a)

FLe(a, b) == ~FLt(b, a)

FMin(a, b) == IF FLt(b, a) THEN b ELSE a

FMax(a, b) == IF FLt(a, b) THEN b ELSE a

\* The spacing of doubles (in units of 2^-56) in the binade that holds <<hi, lo>>.
Ulp(hi) ==
    IF hi < 2^25 THEN 1
    ELSE IF hi < 2^26 THEN 2
    ELSE IF hi < 2^27 THEN 4
    ELSE IF hi < 2^28 THEN 8
    ELSE IF hi < 2^29 THEN 16
    ELSE 32

\* Round an exact value to the nearest double, ties to even.
FRound(x) ==
    LET u    == Ulp(x[1])
        r    == x[2] % u
        base == x[2] - r
        up   == \/ 2 * r > u
                \/ (2 * r = u /\ (base \div u) % 2 = 1)
        lo   == IF up THEN base + u ELSE base
    IN  IF lo >= Limb THEN <<x[1] + 1, lo - Limb>> ELSE <<x[1], lo>>

FAdd(a, b) ==
    LET lo == a[2] + b[2]
    IN  FRound(IF lo >= Limb THEN <<a[1] + b[1] + 1, lo - Limb>>
                             ELSE <<a[1] + b[1], lo>>)

\* a - b for a >= b (the only subtraction of the program is score -= 0.2,
\* made when the score already holds an entropy increment of at least 0.3).
FSub(a, b) ==
    LET lo == a[2] - b[2]
    IN  FRound(IF lo < 0 THEN <<a[1] - b[1] - 1, lo + Limb>>
                         ELSE <<a[1] - b[1], lo>>)

(***************************************************************************)
(* EntropyAnalyzer (entropy.py).                                           *)
(*                                                                         *)
(* A sample is what analyze() measures on the first sample_size bytes of   *)
(* a file: data (the read succeeded and returned bytes), the band of the   *)
(* Shannon entropy (0: <= 7.2, 1: (7.2, 7.5], 2: (7.5, 7.8], 3: > 7.8),    *)
(* and the outcome of the four ratio tests.  The measurements themselves   *)
(* (log2, square root) are inputs of the model; the scoring is computed.   *)
(***************************************************************************)
ENC_EXT == {".gpg", ".enc", ".aes", ".crypt", ".pgp"}

\* The table as an earlier copy of the module has it (src/entropy.py 12).
HIGH_ENTROPY_FORMATS_4 == {".docx", ".xlsx", ".pptx", ".ods"}

HIGH_ENTROPY_FORMATS ==
    {".docx", ".xlsx", ".pptx", ".ods", ".odt", ".odp", ".odg", ".odf", ".odm"}

Samples ==
    [data : BOOLEAN, band : 0..3, skewLow : BOOLEAN, nullLow : BOOLEAN,
     asciiLow : BOOLEAN, highHigh : BOOLEAN]

\* The sample of n > 0 bytes that all have the value b (entropy.py 38-50).
\* One count is n, so entropy = -(1 * log2(1)) = 0.  The histogram has one
\* bucket at n and 255 at 0: mean n/256, deviation n*sqrt(255)/256, so
\* skew = (255^3 - 255) / (256 * 255^(3/2)) = 254 / sqrt(255), about 15.9,
\* whatever n; abs(skew) < 0.3 is 254^2 * 100 < 9 * 255.  The three ratios
\* are each 0 or 1.
IdenticalSample(b) ==
    [data |-> TRUE, band |-> 0, skewLow |-> 254 * 254 * 100 < 9 * 255,
     nullLow |-> b # 0, asciiLow |-> ~(32 <= b /\ b <= 126),
     highHigh |-> b > 127]

\* The samples whose bytes are all ASCII (below 128): at most 128 values
\* occur, so entropy <= log2(128) = 7 and no band is reached, and no byte is
\* above 127; the other three conditions can each go either way.
AsciiSamples ==
    {s \in Samples : s.data /\ s.band = 0 /\ ~s.highHigh}

\* The entropy bands reached one step early.
BandScoreEarly(band) ==
    IF band >= 2 THEN F0_7 ELSE IF band = 1 THEN F0_5 ELSE F0_3

\* score += ... for the entropy band (entropy.py 52-58)
BandScore(band) ==
    IF band = 3 THEN F0_7 ELSE IF band = 2 THEN F0_5
    ELSE IF band = 1 THEN F0_3 ELSE F0_0

\* The additive score without its high-byte term.
EntropyScoreNoHigh(s, ext) ==
    LET s1 == FAdd(F0_0, BandScore(s.band))
        s2 == IF s.skewLow THEN FAdd(s1, F0_2) ELSE s1
        s3 == IF s.nullLow THEN FAdd(s2, F0_1) ELSE s2
        s4 == IF s.asciiLow THEN FAdd(s3, F0_1) ELSE s3
        s6 == IF ext \in HIGH_ENTROPY_FORMATS /\ s.band >= 1
              THEN FSub(s4, F0_2) ELSE s4
    IN  IF ext \in ENC_EXT THEN FAdd(s6, F0_2) ELSE s6

\* The additive score, in the order the code adds it (entropy.py 52-77).
EntropyScore(s, ext) ==
    LET s1 == FAdd(F0_0, BandScore(s.band))
        s2 == IF s.skewLow THEN FAdd(s1, F0_2) ELSE s1
        s3 == IF s.nullLow THEN FAdd(s2, F0_1) ELSE s2
        s4 == IF s.asciiLow THEN FAdd(s3, F0_1) ELSE s3
        s5 == IF s.highHigh THEN FAdd(s4, F0_1) ELSE s4
        s6 == IF ext \in HIGH_ENTROPY_FORMATS /\ s.band >= 1
              THEN FSub(s5, F0_2) ELSE s5
    IN  IF ext \in ENC_EXT THEN FAdd(s6, F0_2) ELSE s6

\* The analysis returning its score as it was summed.
EntropyAnalyzeNoClamp(s, ext) ==
    IF ~s.data THEN <<FALSE, F0_0>>
    ELSE LET score == EntropyScore(s, ext)
         IN  <<FGt(score, F0_7), score>>

\* The analysis calling a score of 0.7 encrypted already.
EntropyAnalyzeFrom07(s, ext) ==
    IF ~s.data THEN <<FALSE, F0_0>>
    ELSE LET score == EntropyScore(s, ext)
         IN  <<FLe(F0_7, score), FMin(F1_0, FMax(F0_0, score))>>

\* EntropyAnalyzer.analyze: <<is_encrypted, confidence>>.
EntropyAnalyze(s, ext) ==
    IF ~s.data THEN <<FALSE, F0_0>>
    ELSE LET score == EntropyScore(s, ext)
         IN  <<FGt(score, F0_7), FMin(F1_0, FMax(F0_0, score))>>

(***************************************************************************)
(* Format handlers (file_handlers.py).                                     *)
(*                                                                         *)
(* A verdict is <<password_protected, encrypted, confidence>>.  Each       *)
(* handler is the blocking function its is_encrypted offloads, as a        *)
(* function of the availability flags (libs) and of what the parsing       *)
(* library does with the file: p.a is the outcome of the first attempt,    *)
(* p.b the outcome of the fallback attempt the code makes when the first   *)
(* one faults.                                                             *)
(***************************************************************************)
NoSignal == <<FALSE, FALSE, F0_0>>

LibNames ==
    {"msoffcrypto", "pdf2", "pikepdf", "rarfile", "py7zr", "pypff", "olefile"}

\* The OpenXML handler giving the DocumentProtection marker of core.xml a
\* confidence below the fallback's threshold.
OfficeOpenXMLHandlerUnsure(libs, p) ==
    IF ~libs["msoffcrypto"] THEN NoSignal
    ELSE IF p.a = "plain" THEN <<FALSE, FALSE, F1_0>>
    ELSE IF p.a = "emptykey" THEN <<FALSE, TRUE, F0_8>>
    ELSE IF p.a = "keyerror" THEN <<TRUE, TRUE, F1_0>>
    ELSE IF p.b = "encpkg" THEN <<TRUE, TRUE, F1_0>>
    ELSE IF p.b = "protected" THEN <<TRUE, FALSE, F0_4>>
    ELSE NoSignal

\* file_handlers.py 54-87.  p.a: "plain" (is_encrypted() false), "emptykey"
\* (load_key('') succeeds), "keyerror" (InvalidKeyError / DecryptionError),
\* "fault" (anything else raises).  p.b, the zipfile fallback: "encpkg"
\* (EncryptedPackage member), "protected" (core.xml holds DocumentProtection),
\* "nothing" (neither), "fault" (the fallback raises).
OfficeOpenXMLHandler(libs, p) ==
    IF ~libs["msoffcrypto"] THEN NoSignal
    ELSE IF p.a = "plain" THEN <<FALSE, FALSE, F1_0>>
    ELSE IF p.a = "emptykey" THEN <<FALSE, TRUE, F0_8>>
    ELSE IF p.a = "keyerror" THEN <<TRUE, TRUE, F1_0>>
    ELSE IF p.b = "encpkg" THEN <<TRUE, TRUE, F1_0>>
    ELSE IF p.b = "protected" THEN <<TRUE, FALSE, F0_9>>
    ELSE NoSignal

\* file_handlers.py 93-108.  p.a: "crypto" (EncryptionInfo or EncryptedPackage
\* stream), "compobj" (CompObj and SummaryInformation, no crypto stream),
\* "other" (neither), "fault" (olefile raises).
OfficeLegacyHandler(libs, p) ==
    IF ~libs["olefile"] THEN NoSignal
    ELSE IF p.a = "crypto" THEN <<TRUE, TRUE, F1_0>>
    ELSE IF p.a = "compobj" THEN <<FALSE, FALSE, F0_5>>
    ELSE NoSignal

\* file_handlers.py 138-151, the pikepdf attempt.  p.b: "plain", "enc_ok"
\* (pages[0] readable), "enc_pw" (PasswordError), "enc_fault" (pages[0] raises
\* something else), "fault" (Pdf.open raises).
PikePdfAttempt(libs, p) ==
    IF ~libs["pikepdf"] THEN NoSignal
    ELSE IF p.b = "plain" THEN <<FALSE, FALSE, F1_0>>
    ELSE IF p.b = "enc_ok" THEN <<FALSE, TRUE, F0_8>>
    ELSE IF p.b = "enc_pw" THEN <<TRUE, TRUE, F1_0>>
    ELSE NoSignal

\* file_handlers.py 114-153.  p.a, the PyPDF2 attempt: "plain", "enc_pages"
\* (encrypted, len(pages) > 0), "enc_nopages" (encrypted, no page),
\* "enc_pagepw" (reader.pages raises the library's not-decrypted error),
\* "enc_pagefault" (reader.pages raises anything else; line 128 catches
\* Exception, so both end alike), "readerr_pw" (PdfReadError saying
\* "password required"), "readerr" (any other PdfReadError), "fault" (any
\* other exception).
PDFHandler(libs, p) ==
    IF ~(libs["pdf2"] \/ libs["pikepdf"]) THEN NoSignal
    ELSE IF libs["pdf2"] /\ p.a # "fault" THEN
        IF p.a = "enc_pages" THEN <<FALSE, TRUE, F0_8>>
        ELSE IF p.a \in {"enc_pagepw", "enc_pagefault"} THEN <<TRUE, TRUE, F1_0>>
        ELSE IF p.a \in {"plain", "enc_nopages"} THEN <<FALSE, FALSE, F1_0>>
        ELSE IF p.a = "readerr_pw" THEN <<TRUE, TRUE, F1_0>>
        ELSE NoSignal
    ELSE PikePdfAttempt(libs, p)

\* The ZIP handler testing another bit of flag_bits than bit 0, so that an
\* entry with the encryption bit set passes for a clean one.
ZIPHandlerOtherBit(libs, p) ==
    IF p.a \in {"flagged", "clean"} THEN <<FALSE, FALSE, F1_0>>
    ELSE IF p.a = "badzip" /\ p.b = "encrypted" THEN <<TRUE, TRUE, F1_0>>
    ELSE NoSignal

\* The ZIP handler without its read probe after BadZipFile.
ZIPHandlerNoProbe(libs, p) ==
    IF p.a = "flagged" THEN <<TRUE, TRUE, F1_0>>
    ELSE IF p.a = "clean" THEN <<FALSE, FALSE, F1_0>>
    ELSE NoSignal

\* file_handlers.py 159-184.  p.a: "flagged" (some entry has flag_bits & 0x1),
\* "clean" (opens, no entry flagged), "badzip" (BadZipFile), "fault" (another
\* exception).  p.b, the second open and read probe made after BadZipFile:
\* "encrypted" (RuntimeError mentioning "encrypted"), "runtime" (another
\* RuntimeError), "fault" (any other exception, BadZipFile again included),
\* "ok" (the probe reads a byte).
ZIPHandler(libs, p) ==
    IF p.a = "flagged" THEN <<TRUE, TRUE, F1_0>>
    ELSE IF p.a = "clean" THEN <<FALSE, FALSE, F1_0>>
    ELSE IF p.a = "badzip" /\ p.b = "encrypted" THEN <<TRUE, TRUE, F1_0>>
    ELSE NoSignal

\* The RAR handler answering "not protected" when its library is missing.
RARHandlerAbsentClean(libs, p) ==
    IF ~libs["rarfile"] THEN <<FALSE, FALSE, F1_0>>
    ELSE IF p.a = "needs" THEN <<TRUE, TRUE, F1_0>>
    ELSE IF p.a = "noneed" THEN <<FALSE, FALSE, F1_0>>
    ELSE NoSignal

\* file_handlers.py 190-202.  p.a: "needs" / "noneed" (needs_password()),
\* "fault".
RARHandler(libs, p) ==
    IF ~libs["rarfile"] THEN NoSignal
    ELSE IF p.a = "needs" THEN <<TRUE, TRUE, F1_0>>
    ELSE IF p.a = "noneed" THEN <<FALSE, FALSE, F1_0>>
    ELSE NoSignal

\* file_handlers.py 208-221.
SevenZipHandler(libs, p) ==
    IF ~libs["py7zr"] THEN NoSignal
    ELSE IF p.a = "needs" THEN <<TRUE, TRUE, F1_0>>
    ELSE IF p.a = "noneed" THEN <<FALSE, FALSE, F1_0>>
    ELSE NoSignal

\* file_handlers.py 227-246.  p.a: "ok" (the catalog read succeeds),
\* "dberr_enc" (DatabaseError saying "encrypted" or "not a database"),
\* "dberr" (another DatabaseError), "fault" (another exception).
SQLiteHandler(libs, p) ==
    IF p.a = "ok" THEN <<FALSE, FALSE, F1_0>>
    ELSE IF p.a = "dberr_enc" THEN <<TRUE, TRUE, F1_0>>
    ELSE NoSignal

\* file_handlers.py 252-271.  p.a: "ok", "err_pw" (pypff.Error saying
\* "password" or "encrypted"), "err" (another pypff.Error), "fault".
PSTHandler(libs, p) ==
    IF ~libs["pypff"] THEN NoSignal
    ELSE IF p.a = "ok" THEN <<FALSE, FALSE, F1_0>>
    ELSE IF p.a = "err_pw" THEN <<TRUE, TRUE, F1_0>>
    ELSE NoSignal

\* The MSG handler as earlier copies have it (v2withAsync/file_handlers.py
\* 304-312): a message that extract_msg opens is confidently unprotected.
MSGHandlerExtractMsg(libs, p) ==
    IF p.a = "absent" THEN <<FALSE, FALSE, F1_0>>
    ELSE IF libs["olefile"] /\ p.a = "encsummary" THEN <<TRUE, TRUE, F0_9>>
    ELSE NoSignal

\* file_handlers.py 277-293.  p.a: "encsummary" (EncryptedSummary stream),
\* "absent", "fault".
MSGHandler(libs, p) ==
    IF libs["olefile"] /\ p.a = "encsummary" THEN <<TRUE, TRUE, F0_9>>
    ELSE NoSignal

\* file_handlers.py 299-321.  p.a: "manifest_enc" (manifest holds
\* manifest:encryption-data), "readable" (content.xml reads, or is absent),
\* "content_enc" (the read raises RuntimeError mentioning "encrypted"),
\* "content_rt" (another RuntimeError), "fault" (any other exception).
LibreOfficeHandler(libs, p) ==
    IF p.a = "manifest_enc" THEN <<TRUE, TRUE, F1_0>>
    ELSE IF p.a = "readable" THEN <<FALSE, FALSE, F1_0>>
    ELSE IF p.a = "content_enc" THEN <<TRUE, TRUE, F1_0>>
    ELSE NoSignal

\* self.handlers (detector.py 24-35): the tags that have a handler.
HandlerTags ==
    {"office_openxml", "office_legacy", "pdf", "zip", "rar", "7z", "sqlite",
     "pst", "msg", "libre_office"}

\* handler.is_encrypted(file_path) for the handler of `tag`, when the offload
\* of its blocking function succeeds.
HandlerVerdict(tag, libs, p) ==
    CASE tag = "office_openxml" -> OfficeOpenXMLHandler(libs, p)
      [] tag = "office_legacy"  -> OfficeLegacyHandler(libs, p)
      [] tag = "pdf"            -> PDFHandler(libs, p)
      [] tag = "zip"            -> ZIPHandler(libs, p)
      [] tag = "rar"            -> RARHandler(libs, p)
      [] tag = "7z"             -> SevenZipHandler(libs, p)
      [] tag = "sqlite"         -> SQLiteHandler(libs, p)
      [] tag = "pst"            -> PSTHandler(libs, p)
      [] tag = "msg"            -> MSGHandler(libs, p)
      [] tag = "libre_office"   -> LibreOfficeHandler(libs, p)

(***************************************************************************)
(* Type resolution.                                                        *)
(***************************************************************************)
\* MagikaDetector.detect: the classifier reports a media type that maps to a
\* tag (cls is that tag), reports one that maps to no tag ("none"), or fails
\* ("fail"); the last two resolve to 'unknown'.
MagikaDetect(cls) == IF cls \in HandlerTags THEN cls ELSE "unknown"

\* FileTypeDetector.detect (type_utils.py 15-27): the classifier's answer.
TypeDetect(f) == MagikaDetect(f.cls)

\* The extension table of the earlier resolver (src/type_utils.py 15-33, 47):
\* the tag of a lower-cased extension, 'unknown' for one not in the table.
extension_map(ext) ==
    CASE ext \in {".docx", ".xlsx", ".pptx"} -> "office_openxml"
      [] ext \in {".doc", ".xls", ".ppt"}    -> "office_legacy"
      [] ext = ".pdf"                        -> "pdf"
      [] ext = ".zip"                        -> "zip"
      [] ext = ".rar"                        -> "rar"
      [] ext = ".7z"                         -> "7z"
      [] ext \in {".sqlite", ".db"}          -> "sqlite"
      [] ext = ".pst"                        -> "pst"
      [] ext = ".msg"                        -> "msg"
      [] ext \in {".ods", ".odt", ".odp"}    -> "libre_office"
      [] OTHER                               -> "unknown"

\* The tags the earlier classifier wrapper maps a media type to
\* (src/magika_detector.py 30-41).
mime_map == {"pdf", "office_openxml", "office_legacy", "zip", "rar", "7z",
             "sqlite", "msg"}

\* MagikaDetector.detect of src/magika_detector.py 13-43: 'unknown' when the
\* classifier raises or reports a media type the map does not hold.
LegacyMagikaDetect(cls) == IF cls \in mime_map THEN cls ELSE "unknown"

\* FileTypeDetector.detect of src/type_utils.py 35-53: the table first, the
\* classifier only for an extension the table does not hold.
LegacyTypeDetect(f) ==
    IF extension_map(f.ext) # "unknown" THEN extension_map(f.ext)
    ELSE LegacyMagikaDetect(f.cls)

(***************************************************************************)
(* Worker pools (scripts/run_detector.py 77-83, detector.py 21-36, 75).    *)
(***************************************************************************)
Min(a, b) == IF a < b THEN a ELSE b

Max(a, b) == IF a > b THEN a ELSE b

\* max_workers of global_executor, the pool handed to the detector.
MaxWorkers(cores) == Max(32, cores * 2 + 4)

\* A mis-sized default pool: the sum where the minimum is meant.
DefaultExecutorWorkersSum(cores) == 32 + (cores + 4)

\* asyncio.to_thread runs its function in the running loop's default executor,
\* a ThreadPoolExecutor() with the default max_workers.
DefaultExecutorWorkers(cores) == Min(32, cores + 4)

\* The executor a blocking call is offloaded to: every offload in
\* file_handlers.py and detector.py 75 is asyncio.to_thread; self.executor
\* (detector.py 36) is stored and never used.
OffloadExecutor == "loop_default"

(***************************************************************************)
(* analyze_file (detector.py 38-88), its pure parts.                       *)
(***************************************************************************)
\* The validity check without its size test.
IsAnalyzableNoSize(f) == f.kind \in {"regular", "empty"}

\* detector.py 50: os.path.isfile(path) and os.path.getsize(path) != 0
IsAnalyzable(f) == f.kind = "regular"

\* The accumulator shared by all tasks instead of local to each.
InitialVerdictShared(t, i) == IF i > 1 THEN t[i - 1].v ELSE NoSignal

\* detector.py 62: password_protected, encrypted, confidence = False, False, 0.0
InitialVerdict(t, i) == NoSignal

\* detector.py 73 asking for a confidence the handler did give.
NeedsEntropyNonZero(conf) == FLt(F0_0, conf) /\ FLt(conf, F0_5)

\* detector.py 73 with <= for <.
NeedsEntropyLe(conf) == FLe(conf, F0_5)

\* detector.py 73: if confidence < 0.5
NeedsEntropy(conf) == FLt(conf, F0_5)

\* detector.py 76-78 replacing the whole verdict.
ArbitrateAll(v, e) == IF FGt(e[2], v[3]) THEN <<e[1], e[1], e[2]>> ELSE v

\* detector.py 76-78: the entropy verdict replaces encrypted and confidence
\* when its confidence is greater; password_protected is kept.
Arbitrate(v, e) == IF FGt(e[2], v[3]) THEN <<v[1], e[1], e[2]>> ELSE v

(***************************************************************************)
(* Bounds of the model.                                                    *)
(***************************************************************************)
\* Files in a scanned directory.
MaxFiles == 2

\* Scans a caller makes one after the other on the same directory.
MaxScans == 2

\* Available cores (multiprocessing.cpu_count()).
MaxCores == 2

(***************************************************************************)
(* Files.  A file is what the pipeline can observe of it: kind ("regular": *)
(* a non-empty regular file, "empty", "special": exists but is no regular  *)
(* file, "missing"), its lower-cased extension, the classifier's answer,   *)
(* the parsing library's behaviour on it and its leading sample.           *)
(***************************************************************************)
Exts == {".txt", ".docx", ".gpg"}

Libs == [LibNames -> BOOLEAN]

AllLibs == [l \in LibNames |-> TRUE]

NoLibs == [l \in LibNames |-> FALSE]

NoProbe == [a |-> "none", b |-> "none"]

NoSample ==
    [data |-> FALSE, band |-> 0, skewLow |-> FALSE, nullLow |-> FALSE,
     asciiLow |-> FALSE, highHigh |-> FALSE]

\* The library behaviours a file of each classification can show.  The
\* fallback outcome b is enumerated only where the code can reach it (for a
\* PDF, a = "fault" also stands for PyPDF2 being absent, where a is not read).
\* For a ZIP archive the second open follows a BadZipFile of the first: it gets
\* further only if the file has changed in between (an archive still being
\* written), and then the read probe has any of its outcomes.
Probes(cls) ==
    CASE cls = "office_openxml" ->
            [a : {"plain", "emptykey", "keyerror"}, b : {"none"}]
            \cup [a : {"fault"}, b : {"encpkg", "protected", "nothing", "fault"}]
      [] cls = "office_legacy" ->
            [a : {"crypto", "compobj", "other", "fault"}, b : {"none"}]
      [] cls = "pdf" ->
            [a : {"plain", "enc_pages", "enc_nopages", "enc_pagepw",
                  "enc_pagefault", "readerr_pw", "readerr"}, b : {"none"}]
            \cup [a : {"fault"},
                  b : {"plain", "enc_ok", "enc_pw", "enc_fault", "fault"}]
      [] cls = "zip" ->
            [a : {"flagged", "clean", "fault"}, b : {"none"}]
            \cup [a : {"badzip"}, b : {"encrypted", "runtime", "fault", "ok"}]
      [] cls \in {"rar", "7z"} ->
            [a : {"needs", "noneed", "fault"}, b : {"none"}]
      [] cls = "sqlite" ->
            [a : {"ok", "dberr_enc", "dberr", "fault"}, b : {"none"}]
      [] cls = "pst" ->
            [a : {"ok", "err_pw", "err", "fault"}, b : {"none"}]
      [] cls = "msg" ->
            [a : {"encsummary", "absent", "fault"}, b : {"none"}]
      [] cls = "libre_office" ->
            [a : {"manifest_enc", "readable", "content_enc", "content_rt",
                  "fault"}, b : {"none"}]
      [] OTHER -> {NoProbe}

\* The samples of a non-empty regular file: unreadable, or any measurement.
RegularSamples == {NoSample} \cup {s \in Samples : s.data}

RegularFiles ==
    UNION {[kind : {"regular"}, ext : Exts, cls : {c}, p : Probes(c),
            s : RegularSamples] : c \in HandlerTags \cup {"none", "fail"}}

IrregularFile(k) ==
    [kind |-> k, ext |-> ".txt", cls |-> "none", p |-> NoProbe, s |-> NoSample]

\* Every file analyze_file can be given.
AllFiles == RegularFiles \cup {IrregularFile(k) : k \in {"empty", "special", "missing"}}

\* The availability flags a file's handler reads (file_handlers.py 11-47).
LibsRead(cls) ==
    CASE cls = "office_openxml" -> {"msoffcrypto"}
      [] cls \in {"office_legacy", "msg"} -> {"olefile"}
      [] cls = "pdf" -> {"pdf2", "pikepdf"}
      [] cls = "rar" -> {"rarfile"}
      [] cls = "7z" -> {"py7zr"}
      [] cls = "pst" -> {"pypff"}
      [] OTHER -> {}

(***************************************************************************)
(* The directories that are scanned: up to MaxFiles files, in walk order,  *)
(* of these kinds.  os.walk lists every non-directory entry, so a scan     *)
(* meets special and empty files but no missing one.                       *)
(***************************************************************************)
RandomSample ==
    [data |-> TRUE, band |-> 3, skewLow |-> TRUE, nullLow |-> TRUE,
     asciiLow |-> TRUE, highHigh |-> TRUE]

TextSample ==
    [data |-> TRUE, band |-> 0, skewLow |-> FALSE, nullLow |-> TRUE,
     asciiLow |-> FALSE, highHigh |-> FALSE]

ScanFiles ==
    { [kind |-> "regular", ext |-> ".txt", cls |-> "zip",
       p |-> [a |-> "flagged", b |-> "none"], s |-> RandomSample],
      [kind |-> "regular", ext |-> ".gpg", cls |-> "none",
       p |-> NoProbe, s |-> RandomSample],
      [kind |-> "regular", ext |-> ".txt", cls |-> "office_legacy",
       p |-> [a |-> "compobj", b |-> "none"], s |-> RandomSample],
      [kind |-> "regular", ext |-> ".txt", cls |-> "pdf",
       p |-> [a |-> "fault", b |-> "fault"], s |-> TextSample],
      IrregularFile("empty"),
      IrregularFile("special") }

ScanDirs == UNION {[1..n -> ScanFiles] : n \in 0..MaxFiles}

(***************************************************************************)
(* State.                                                                  *)
(***************************************************************************)
VARIABLES
    dir,       \* the files under the scanned root, in walk order
    libs,      \* the availability flags set at import
    cores,     \* multiprocessing.cpu_count()
    runs,      \* how many scans the caller makes
    scanNo,    \* scans begun so far
    mode,      \* the entry point of the current scan
    phase,     \* "idle", "running", "returned", "raised"
    task,      \* per file: the analyze_file invocation of the current scan
    results,   \* the list the current scan returned
    prev,      \* the verdicts the previous scan returned
    prevMode,  \* and its entry point
    clock,     \* time.perf_counter(): it advances while a blocking call runs
    bulk,      \* a large concurrent scan, as counts of tasks per position
    cli        \* the command line: its arguments and what it went on to do

vars ==
    <<dir, libs, cores, runs, scanNo, mode, phase, task, results, prev,
      prevMode, clock, bulk, cli>>

\* "async": PasswordProtectionDetector.scan_directory awaited by the CLI;
\* "cli_sync": the same under the CLI's --sync flag (scripts/run_detector.py
\* 85-89); "sync_wrap": SynchronousPasswordProtectionDetector.scan_directory of
\* EncryptionProjectUpdated (asyncio.run of the async scan); "sync_loop": that
\* of EncryptionProject (one asyncio.run per file).
Modes == {"async", "cli_sync", "sync_wrap", "sync_loop"}

\* The entry points that are offered as the sequential mode.
SyncModes == {"cli_sync", "sync_wrap", "sync_loop"}

\* The entry points that gather one task per file.
Gathers(m) == m \in {"async", "cli_sync", "sync_wrap"}

NewTask ==
    [pc |-> "new", ftype |-> "unknown", v |-> NoSignal, det |-> NoSignal,
     caught |-> FALSE, calls |-> {}, start |-> 0, slot |-> "none",
     res |-> [pp |-> FALSE, enc |-> FALSE, conf |-> F0_0, dur |-> 0]]

NoBulk ==
    [n |-> 0, fresh |-> 0, probeQ |-> 0, probeRun |-> 0, entQ |-> 0,
     entRun |-> 0, done |-> 0]

\* No command line: the detector is driven through its methods.
NoCli == [path |-> "none", batch |-> FALSE, sync |-> FALSE, out |-> "none"]

InitWith(d, l, r, c, b) ==
    /\ dir = d
    /\ libs = l
    /\ cores = c
    /\ runs = r
    /\ scanNo = 0
    /\ mode = "none"
    /\ phase = "idle"
    /\ task = [i \in 1..Len(d) |-> NewTask]
    /\ results = <<>>
    /\ prev = <<>>
    /\ prevMode = "none"
    /\ clock = 0
    /\ bulk = b
    /\ cli = NoCli

\* A directory, scanned MaxScans times, with every library or none.  With at
\* most MaxFiles tasks the executor never fills, whatever the core count.
Init == \E d \in ScanDirs, l \in {AllLibs, NoLibs} : InitWith(d, l, MaxScans, 1, NoBulk)

\* One path, analyzed once; the flags its handler does not read are set.
InitFile ==
    \E f \in AllFiles, l \in Libs :
        /\ \A n \in LibNames \ LibsRead(f.cls) : l[n]
        /\ InitWith(<<f>>, l, 1, 1, NoBulk)

\* The extensions of the two tables of entropy.py and three of neither.
AllExts ==
    {".docx", ".xlsx", ".pptx", ".ods", ".odt", ".odp", ".odg", ".odf", ".odm",
     ".gpg", ".enc", ".aes", ".crypt", ".pgp", ".txt", ".doc", ".zip"}

\* One file of any extension that reaches the entropy analysis: of unknown
\* type, or a ZIP archive whose probe gives no confident verdict.
InitEntropy ==
    \E e \in AllExts, c \in {"none", "zip"} :
        \E f \in [kind : {"regular"}, ext : {e}, cls : {c}, p : Probes(c),
                  s : RegularSamples] :
            /\ f.p.a \in {"none", "fault"}
            /\ InitWith(<<f>>, AllLibs, 1, 1, NoBulk)

(***************************************************************************)
(* analyze_file, one invocation per file, as the steps between its awaits. *)
(* Positions: "new" (coroutine created), "typing" (awaiting the type       *)
(* detector), "probeQ" / "entQ" (blocking call handed to the executor,     *)
(* waiting for a worker), "probeRun" / "entRun" (running in a worker       *)
(* slot), "done" (returned its result), "raised", "cancelled".  v is the   *)
(* verdict the invocation accumulates; det keeps what it was when the      *)
(* handler section ended (detector.py 72), caught whether the except       *)
(* branch ran, calls the collaborators invoked.                            *)
(***************************************************************************)
Tasks == DOMAIN task

\* The tasks whose blocking call occupies a worker slot.
Running == {i \in Tasks : task[i].pc \in {"probeRun", "entRun"}}

\* The tasks whose pipeline has begun and not ended.
InProgress ==
    {i \in Tasks : task[i].pc \in {"typing", "probeQ", "probeRun", "entQ", "entRun"}}

\* detector.py 80-88: the result dictionary.
Finish(tk, v) ==
    [tk EXCEPT !.pc = "done", !.v = v, !.slot = "none",
               !.res = [pp |-> v[1], enc |-> v[2], conf |-> v[3],
                        dur |-> clock - tk.start]]

\* The handler section leaving its worker taken while the task goes on.
AfterHandlerHolding(tk, v) ==
    IF NeedsEntropy(v[3])
    THEN [tk EXCEPT !.pc = "entQ", !.v = v, !.det = v,
                    !.calls = @ \cup {"entropy"}]
    ELSE Finish([tk EXCEPT !.det = v], v)

\* detector.py 73-75: after the handler section, offload the entropy read or
\* return.
AfterHandler(tk, v) ==
    IF NeedsEntropy(v[3])
    THEN [tk EXCEPT !.pc = "entQ", !.v = v, !.det = v, !.slot = "none",
                    !.calls = @ \cup {"entropy"}]
    ELSE Finish([tk EXCEPT !.det = v], v)

\* scan_directory begins (detector.py 100-104, sync_detector.py 32-37): the walk
\* lists the files and an analyze_file invocation is set up for each.
ScanBegin(m) ==
    /\ phase \in {"idle", "returned"}
    /\ scanNo < runs
    /\ scanNo' = scanNo + 1
    /\ mode' = m
    /\ phase' = "running"
    /\ task' = [i \in Tasks |-> NewTask]
    /\ prev' = [i \in DOMAIN results |->
                   [file |-> results[i].file, pp |-> results[i].pp,
                    enc |-> results[i].enc, conf |-> results[i].conf]]
    /\ prevMode' = mode
    /\ results' = <<>>
    /\ UNCHANGED <<clock, dir, libs, cores, runs, bulk, cli>>

\* detector.py 48-60: the validity check, then the await of the type detector.
\* Tasks take their first step in the order gather was given them; under
\* sync_loop a file is begun when the one before it has returned.
Start(i) ==
    /\ phase = "running"
    /\ task[i].pc = "new"
    /\ \A j \in Tasks : j < i => task[j].pc # "new"
    /\ ~Gathers(mode) => \A j \in Tasks : j < i => task[j].pc = "done"
    /\ task' = [task EXCEPT ![i] =
                   IF IsAnalyzable(dir[i])
                   THEN [@ EXCEPT !.pc = "typing", !.start = clock,
                                  !.calls = @ \cup {"type"}]
                   ELSE Finish([@ EXCEPT !.start = clock], NoSignal)]
    /\ UNCHANGED <<clock, dir, libs, cores, runs, scanNo, mode, phase, results, prev,
                   prevMode, bulk, cli>>

\* detector.py 60-66: the type is known; the handler's blocking function is
\* handed to the executor, or, with no handler, the confidence test is made.
TypeDone(i) ==
    /\ phase = "running"
    /\ task[i].pc = "typing"
    /\ LET ft == TypeDetect(dir[i])
           v0 == InitialVerdict(task, i)
       IN  task' = [task EXCEPT ![i] =
                       IF ft \in HandlerTags
                       THEN [@ EXCEPT !.pc = "probeQ", !.ftype = ft, !.v = v0,
                                      !.calls = @ \cup {"probe"}]
                       ELSE AfterHandler([@ EXCEPT !.ftype = ft], v0)]
    /\ UNCHANGED <<clock, dir, libs, cores, runs, scanNo, mode, phase, results, prev,
                   prevMode, bulk, cli>>

\* A worker of the executor takes the handler's blocking function.
ProbeBegin(i) ==
    /\ phase = "running"
    /\ task[i].pc = "probeQ"
    /\ Cardinality(Running) < DefaultExecutorWorkers(cores)
    /\ task' = [task EXCEPT ![i] = [@ EXCEPT !.pc = "probeRun",
                                             !.slot = OffloadExecutor]]
    /\ UNCHANGED <<clock, dir, libs, cores, runs, scanNo, mode, phase, results, prev,
                   prevMode, bulk, cli>>

\* detector.py 66, 73-88: the blocking function returns its verdict, the
\* worker is free again and the task goes on.
ProbeEnd(i) ==
    /\ phase = "running"
    /\ task[i].pc = "probeRun"
    /\ task' = [task EXCEPT ![i] =
                   AfterHandler(@, HandlerVerdict(@.ftype, libs, dir[i].p))]
    /\ clock' = clock + 1
    /\ UNCHANGED <<dir, libs, cores, runs, scanNo, mode, phase, results, prev,
                   prevMode, bulk, cli>>

\* detector.py 67-71: the await of handler.is_encrypted raises (the offload
\* itself fails; the blocking functions catch their own faults): the exception
\* is caught, confidence = 0.0, and the task goes on.
ProbeFault(i) ==
    /\ phase = "running"
    /\ task[i].pc = "probeQ"
    /\ task' = [task EXCEPT ![i] =
                   AfterHandler([@ EXCEPT !.caught = TRUE], <<@.v[1], @.v[2], F0_0>>)]
    /\ UNCHANGED <<clock, dir, libs, cores, runs, scanNo, mode, phase, results, prev,
                   prevMode, bulk, cli>>

\* A worker of the executor takes EntropyAnalyzer.analyze.
EntBegin(i) ==
    /\ phase = "running"
    /\ task[i].pc = "entQ"
    /\ Cardinality(Running) < DefaultExecutorWorkers(cores)
    /\ task' = [task EXCEPT ![i] = [@ EXCEPT !.pc = "entRun",
                                             !.slot = OffloadExecutor]]
    /\ UNCHANGED <<clock, dir, libs, cores, runs, scanNo, mode, phase, results, prev,
                   prevMode, bulk, cli>>

\* detector.py 75-88: the entropy verdict arrives; arbitration; the result.
EntEnd(i) ==
    /\ phase = "running"
    /\ task[i].pc = "entRun"
    /\ task' = [task EXCEPT ![i] =
                   Finish(@, Arbitrate(@.v, EntropyAnalyze(dir[i].s, dir[i].ext)))]
    /\ clock' = clock + 1
    /\ UNCHANGED <<dir, libs, cores, runs, scanNo, mode, phase, results, prev,
                   prevMode, bulk, cli>>

\* detector.py 75: the await of asyncio.to_thread raises (the offload itself
\* fails).  No handler encloses it: analyze_file raises.
EntFault(i) ==
    /\ phase = "running"
    /\ task[i].pc = "entQ"
    /\ task' = [task EXCEPT ![i] = [@ EXCEPT !.pc = "raised", !.slot = "none"]]
    /\ UNCHANGED <<clock, dir, libs, cores, runs, scanNo, mode, phase, results, prev,
                   prevMode, bulk, cli>>

\* The scan returning as soon as one invocation has.
AnyReturned(t) == DOMAIN t = {} \/ \E i \in DOMAIN t : t[i].pc = "done"

\* detector.py 106 (gather), sync_detector.py 34-40 (the loop ends): every
\* invocation has returned.
AllReturned(t) == \A i \in DOMAIN t : t[i].pc = "done"

\* The result dictionary of the i-th file of the walk (detector.py 52-58,
\* 82-88).
ResultOf(t, i) ==
    [file |-> i, pp |-> t[i].res.pp, enc |-> t[i].res.enc,
     conf |-> t[i].res.conf, dur |-> t[i].res.dur]

\* The result list leaving out the paths that failed the validity check.
GatherAnalyzed(t) ==
    LET kept == {i \in DOMAIN t : t[i].calls # {}}
        pos(i) == Cardinality({j \in kept : j <= i})
    IN  [k \in 1..Cardinality(kept) |->
            ResultOf(t, CHOOSE i \in kept : pos(i) = k)]

\* The results collected as the invocations complete, earliest first.
GatherAsCompleted(t) ==
    LET key(i)  == (t[i].start + t[i].res.dur) * (Len(t) + 1) + i
        rank(i) == Cardinality({j \in DOMAIN t : key(j) <= key(i)})
    IN  [k \in DOMAIN t |-> ResultOf(t, CHOOSE i \in DOMAIN t : rank(i) = k)]

\* detector.py 106-107 (what gather returns), sync_detector.py 38-40 (the
\* appended list): one result per invocation, in the order of the walk.
Gather(t) == [i \in DOMAIN t |-> ResultOf(t, i)]

\* detector.py 106-107, sync_detector.py 38-40: the results are returned in
\* the order of the walk.
ScanReturn ==
    /\ phase = "running"
    /\ AllReturned(task)
    /\ phase' = "returned"
    /\ results' = Gather(task)
    /\ UNCHANGED <<clock, dir, libs, cores, runs, scanNo, mode, task, prev, prevMode,
                   bulk, cli>>

\* detector.py 106 (gather without return_exceptions), sync_detector.py 38: an
\* invocation raised, so scan_directory raises.  Under gather the exception
\* leaves asyncio.run, which cancels the tasks still pending; under sync_loop
\* the files after the failing one are never begun.
ScanRaise ==
    /\ phase = "running"
    /\ \E i \in Tasks : task[i].pc = "raised"
    /\ phase' = "raised"
    /\ task' = [i \in Tasks |->
                   IF Gathers(mode) /\ task[i].pc \notin {"done", "raised"}
                   THEN [task[i] EXCEPT !.pc = "cancelled"]
                   ELSE task[i]]
    /\ UNCHANGED <<clock, dir, libs, cores, runs, scanNo, mode, results, prev,
                   prevMode, bulk, cli>>

(***************************************************************************)
(* A concurrent scan of BulkFiles files, more than any pool holds.  The    *)
(* tasks differ only in their position, so the state keeps how many are    *)
(* at each: fresh (not begun), probeQ, probeRun, entQ, entRun, done.       *)
(***************************************************************************)
BulkFiles == 33

\* The occupancy if a task kept its probe's worker while it waits for the
\* worker of its entropy read.
BulkRunningHolding == bulk.probeRun + bulk.entRun + bulk.entQ

\* The workers taken: one per blocking call that is running.
BulkRunning == bulk.probeRun + bulk.entRun

InitBulk ==
    \E c \in 1..MaxCores :
        InitWith(<<>>, AllLibs, 0, c,
                 [n |-> BulkFiles, fresh |-> BulkFiles, probeQ |-> 0,
                  probeRun |-> 0, entQ |-> 0, entRun |-> 0, done |-> 0])

\* detector.py 48-66: a task begins; its file is not analyzable (it returns),
\* has a handler (the probe is handed to the executor) or has none (the
\* entropy read is).
BulkStart ==
    /\ bulk.fresh > 0
    /\ \/ bulk' = [bulk EXCEPT !.fresh = @ - 1, !.done = @ + 1]
       \/ bulk' = [bulk EXCEPT !.fresh = @ - 1, !.probeQ = @ + 1]
       \/ bulk' = [bulk EXCEPT !.fresh = @ - 1, !.entQ = @ + 1]
    /\ UNCHANGED <<dir, libs, cores, runs, scanNo, mode, phase, task, results,
                   prev, prevMode, clock, cli>>

\* A worker of the executor takes a handler's blocking function.
BulkProbeBegin ==
    /\ bulk.probeQ > 0
    /\ BulkRunning < DefaultExecutorWorkers(cores)
    /\ bulk' = [bulk EXCEPT !.probeQ = @ - 1, !.probeRun = @ + 1]
    /\ UNCHANGED <<dir, libs, cores, runs, scanNo, mode, phase, task, results,
                   prev, prevMode, clock, cli>>

\* detector.py 66-75: a probe returns; its task returns (confidence >= 0.5) or
\* hands the entropy read to the executor.
BulkProbeEnd ==
    /\ bulk.probeRun > 0
    /\ \/ bulk' = [bulk EXCEPT !.probeRun = @ - 1, !.done = @ + 1]
       \/ bulk' = [bulk EXCEPT !.probeRun = @ - 1, !.entQ = @ + 1]
    /\ UNCHANGED <<dir, libs, cores, runs, scanNo, mode, phase, task, results,
                   prev, prevMode, clock, cli>>

\* A worker of the executor takes EntropyAnalyzer.analyze.
BulkEntBegin ==
    /\ bulk.entQ > 0
    /\ BulkRunning < DefaultExecutorWorkers(cores)
    /\ bulk' = [bulk EXCEPT !.entQ = @ - 1, !.entRun = @ + 1]
    /\ UNCHANGED <<dir, libs, cores, runs, scanNo, mode, phase, task, results,
                   prev, prevMode, clock, cli>>

\* detector.py 75-88: an entropy read returns; its task returns.
BulkEntEnd ==
    /\ bulk.entRun > 0
    /\ bulk' = [bulk EXCEPT !.entRun = @ - 1, !.done = @ + 1]
    /\ UNCHANGED <<dir, libs, cores, runs, scanNo, mode, phase, task, results,
                   prev, prevMode, clock, cli>>

NextBulk ==
    BulkStart \/ BulkProbeBegin \/ BulkProbeEnd \/ BulkEntBegin \/ BulkEntEnd

(***************************************************************************)
(* The command line (scripts/run_detector.py).  path is what os.path says  *)
(* of the path argument: "dir" (a directory, dir holding its files),       *)
(* "file" (os.path.isfile holds, dir holding that one file), "special"     *)
(* (exists, neither a directory nor a regular file) or "missing".  out is  *)
(* the branch taken: "scan", "file" or "error".                            *)
(***************************************************************************)
CliPaths == {"dir", "file", "special", "missing"}

\* The files os.path.isfile accepts: regular ones, empty ones included.
CliFiles == {f \in ScanFiles : f.kind \in {"regular", "empty"}}

InitCli ==
    \E pa \in CliPaths, ba \in BOOLEAN, sy \in BOOLEAN, l \in {AllLibs, NoLibs} :
        /\ cli = [path |-> pa, batch |-> ba, sync |-> sy, out |-> "none"]
        /\ dir \in CASE pa = "dir"  -> ScanDirs
                     [] pa = "file" -> {<<f>> : f \in CliFiles}
                     [] OTHER       -> {<<>>}
        /\ libs = l
        /\ cores = 1
        /\ runs = 1
        /\ scanNo = 0
        /\ mode = "none"
        /\ phase = "idle"
        /\ task = [i \in 1..Len(dir) |-> NewTask]
        /\ results = <<>>
        /\ prev = <<>>
        /\ prevMode = "none"
        /\ clock = 0
        /\ bulk = NoBulk

\* run_detector.py 18 with the batch flag forgotten.
ScansDirectoryAnyway(c) == c.path = "dir"

\* run_detector.py 18: args.batch and os.path.isdir(args.path)
ScansDirectory(c) == c.batch /\ c.path = "dir"

\* run_detector.py 32: os.path.isfile(args.path)
ScansFile(c) == c.path = "file"

\* run_detector.py 85-93, 18-50: either branch of --sync runs
\* _run_detection_logic, which scans the directory, analyzes the one file or
\* writes the invalid-path message; nothing is analyzed in the last case.
CliRun ==
    /\ cli.out = "none"
    /\ phase = "idle"
    /\ IF ScansDirectory(cli) \/ ScansFile(cli)
       THEN /\ cli' = [cli EXCEPT !.out = IF ScansDirectory(cli) THEN "scan" ELSE "file"]
            /\ scanNo' = scanNo + 1
            /\ mode' = IF cli.sync THEN "cli_sync" ELSE "async"
            /\ phase' = "running"
            /\ task' = [i \in Tasks |-> NewTask]
            /\ prevMode' = mode
            /\ UNCHANGED <<results, prev>>
       ELSE /\ cli' = [cli EXCEPT !.out = "error"]
            /\ UNCHANGED <<scanNo, mode, phase, task, results, prev, prevMode>>
    /\ UNCHANGED <<clock, dir, libs, cores, runs, bulk>>

\* The steps of the invocations while every offload succeeds.
Steps ==
    \/ \E i \in Tasks : Start(i)
    \/ \E i \in Tasks : TypeDone(i)
    \/ \E i \in Tasks : ProbeBegin(i)
    \/ \E i \in Tasks : ProbeEnd(i)
    \/ \E i \in Tasks : EntBegin(i)
    \/ \E i \in Tasks : EntEnd(i)
    \/ ScanReturn

\* The offload faults and what follows from them.
Faults ==
    \/ \E i \in Tasks : ProbeFault(i)
    \/ \E i \in Tasks : EntFault(i)
    \/ ScanRaise

NextStable == (\E m \in Modes : ScanBegin(m)) \/ Steps

Next == (\E m \in Modes : ScanBegin(m)) \/ Steps \/ Faults

NextFile == ScanBegin("async") \/ Steps \/ Faults

NextFileStable == ScanBegin("async") \/ Steps

NextCli == CliRun \/ Steps

\* Scans of a directory, offload faults included.
Spec == Init /\ [][Next]_vars

\* Scans of a directory while every offload succeeds.
SpecStable == Init /\ [][NextStable]_vars

\* The analysis of one path, of every kind, offload faults included.
SpecFile == InitFile /\ [][NextFile]_vars

\* The analysis of one path while every offload succeeds.
SpecFileStable == InitFile /\ [][NextFileStable]_vars

\* The entropy analysis of one file, over every extension of its tables.
SpecEntropy == InitEntropy /\ [][NextFileStable]_vars

\* One run of the command line.
SpecCli == InitCli /\ [][NextCli]_vars

\* The pool occupancy of a large concurrent scan.
SpecBulk == InitBulk /\ [][NextBulk]_vars

\* The same scan when the event loop runs every task that is ready, an idle
\* worker takes the call at the head of the executor's queue, and every
\* blocking call returns.
SpecBulkLive ==
    /\ InitBulk
    /\ [][NextBulk]_vars
    /\ WF_vars(BulkStart)
    /\ WF_vars(BulkProbeBegin)
    /\ WF_vars(BulkProbeEnd)
    /\ WF_vars(BulkEntBegin)
    /\ WF_vars(BulkEntEnd)


(***************************************************************************)
(* Properties.                                                             *)
(***************************************************************************)
Done == {i \in Tasks : task[i].pc = "done"}

\* C1: every result analyze_file returns has a confidence in [0.0, 1.0], and
\* a result whose confidence is exactly 0.0 has both flags false.
C1_ConfidenceRange ==
    \A i \in Done :
        /\ FLe(F0_0, task[i].res.conf)
        /\ FLe(task[i].res.conf, F1_0)
        /\ task[i].res.conf = F0_0 => ~task[i].res.pp /\ ~task[i].res.enc

\* A result decided by an entropy score that summed to more than 1.0.
C1_Witness ==
    \E i \in Done :
        /\ "entropy" \in task[i].calls
        /\ dir[i].s.data
        /\ FGt(EntropyScore(dir[i].s, dir[i].ext), F1_0)
        /\ task[i].res.conf = F1_0

\* C2: for a path that is not a regular file or is an empty file the result
\* is exactly (false, false, 0.0) with a non-negative duration, and neither
\* the type resolver, a format detector nor the entropy analyzer is invoked.
C2_InvalidPath ==
    \A i \in Tasks :
        dir[i].kind # "regular" =>
            /\ task[i].pc \in {"new", "done"}
            /\ task[i].calls = {}
            /\ task[i].slot = "none"
            /\ task[i].pc = "done" =>
                   /\ <<task[i].res.pp, task[i].res.enc, task[i].res.conf>> = NoSignal
                   /\ task[i].res.dur >= 0

\* The analysis of an empty file has returned.
C2_Witness == \E i \in Done : dir[i].kind = "empty"

\* C9: when the detector's confidence is below 0.5 the entropy analysis runs,
\* and its verdict replaces the encrypted flag and the confidence exactly when
\* its confidence is strictly greater; the detector's passwordProtected flag
\* is kept.  At 0.5 or more the detector's verdict is the result and the
\* entropy analysis does not run.
C9_Arbitration ==
    \A i \in Done :
        dir[i].kind = "regular" =>
            LET d == task[i].det
                e == EntropyAnalyze(dir[i].s, dir[i].ext)
                r == <<task[i].res.pp, task[i].res.enc, task[i].res.conf>>
                handled == dir[i].cls \in HandlerTags
            IN  /\ d = IF ~handled \/ task[i].caught THEN NoSignal
                       ELSE HandlerVerdict(dir[i].cls, libs, dir[i].p)
                /\ IF FLt(d[3], F0_5)
                   THEN /\ "entropy" \in task[i].calls
                        /\ r = IF FGt(e[2], d[3]) THEN <<d[1], e[1], e[2]>> ELSE d
                   ELSE /\ "entropy" \notin task[i].calls
                        /\ r = d

\* A handler returned a confidence below 0.5 and the entropy verdict, with
\* its encrypted flag set, replaced it.
C9_Witness ==
    \E i \in Done :
        /\ "probe" \in task[i].calls
        /\ ~task[i].caught
        /\ FLt(task[i].det[3], F0_5)
        /\ EntropyAnalyze(dir[i].s, dir[i].ext)[1]
        /\ task[i].res.enc
        /\ ~task[i].res.pp
        /\ task[i].res.conf = EntropyAnalyze(dir[i].s, dir[i].ext)[2]

Verdicts(rs) == {<<rs[i].file, rs[i].pp, rs[i].enc, rs[i].conf>> : i \in DOMAIN rs}

\* C3: over the same files a sequential scan and a concurrent scan return the
\* same set of (file, passwordProtected, encrypted, confidence) tuples; only
\* the durations may differ.
C3_ModesAgree ==
    /\ phase = "returned"
    /\ scanNo >= 2
    /\ \/ prevMode \in SyncModes /\ mode = "async"
       \/ prevMode = "async" /\ mode \in SyncModes
    => Verdicts(prev) = Verdicts(results)

\* A file-by-file scan and then a concurrent scan of two files with different
\* verdicts, one of them decided by the entropy analysis, have both returned.
C3_Witness ==
    /\ phase = "returned"
    /\ prevMode = "sync_loop"
    /\ mode = "async"
    /\ Len(results) = 2
    /\ results[1].conf # results[2].conf
    /\ \E i \in Tasks : "entropy" \in task[i].calls

\* C4: no fault in one file aborts the scan: scan_directory returns normally
\* with an entry for every enumerated file, and no sibling task is cancelled.
C4_ScanSurvivesFaults ==
    /\ phase # "raised"
    /\ \A i \in Tasks : task[i].pc # "cancelled"
    /\ phase = "returned" => Len(results) = Len(dir)

\* C5: in sequential mode (the synchronous detector, the CLI sync flag) at
\* most one file's pipeline is in progress at a time, and the results come in
\* the order of the walk.
C5_OneAtATime ==
    mode \in SyncModes =>
        /\ phase = "running" => Cardinality(InProgress) <= 1
        /\ phase = "returned" => \A i \in DOMAIN results : results[i].file = i

\* C6: in a concurrent scan the blocking calls running at any instant number
\* at most max(32, 2 * cores + 4).
C6_RunningBound == BulkRunning <= Max(32, 2 * cores + 4)

\* Every worker is taken while more blocking calls wait for one.
C6_Witness ==
    /\ BulkRunning = DefaultExecutorWorkers(cores)
    /\ bulk.probeRun > 0
    /\ bulk.entRun > 0
    /\ bulk.probeQ + bulk.entQ > 0

\* C7: in a concurrent scan every running probe and entropy read occupies a
\* slot of the bounded pool handed to the detector, and of no other pool.
C7_HandedPoolOnly ==
    Gathers(mode) => \A i \in Running : task[i].slot = "global_executor"

\* C8: analysing the same unchanged file again, in the same scan or in a later
\* one, gives the same verdict, whatever entry point made the first analysis
\* and whichever makes the second.
C8_Idempotent ==
    phase = "returned" =>
        /\ \A i, j \in DOMAIN results :
               dir[i] = dir[j] =>
                   <<results[i].pp, results[i].enc, results[i].conf>>
                       = <<results[j].pp, results[j].enc, results[j].conf>>
        /\ scanNo >= 2 =>
               /\ Len(prev) = Len(results)
               /\ \A i \in DOMAIN results :
                      /\ prev[i].file = results[i].file
                      /\ <<prev[i].pp, prev[i].enc, prev[i].conf>>
                             = <<results[i].pp, results[i].enc, results[i].conf>>

\* Two scans of two files have returned, the first file decided by its handler
\* and the second by the entropy analysis.
C8_Witness ==
    /\ phase = "returned"
    /\ scanNo = 2
    /\ Len(results) = 2
    /\ task[1].calls = {"type", "probe"}
    /\ "entropy" \in task[2].calls
    /\ results[2].enc

\* C10: a fault in any step of one file's analysis is caught at the
\* analyze_file boundary: the invocation never raises, and after a fault the
\* detector's confidence is 0.0 and the entropy fallback decides.
C10_FaultsCaught ==
    \A i \in Tasks :
        /\ task[i].pc # "raised"
        /\ task[i].caught /\ task[i].pc = "done" =>
               /\ task[i].det = NoSignal
               /\ "entropy" \in task[i].calls

\* C11: the resolved tag of a path whose lower-cased extension is in the
\* extension table is the table's tag, whatever the content classifier would
\* say; for any other extension it is the classifier's tag, and Unknown when
\* the classifier fails or reports a type with no tag.
C11_ExtensionFirst ==
    \A i \in Tasks :
        "type" \in task[i].calls /\ task[i].pc # "typing" =>
            task[i].ftype =
                IF extension_map(dir[i].ext) # "unknown"
                THEN extension_map(dir[i].ext)
                ELSE IF dir[i].cls \in HandlerTags THEN dir[i].cls ELSE "unknown"

\* C12: for a file whose resolved tag is Unknown no format detector is
\* invoked and the entropy analysis is; the result has passwordProtected
\* false and the entropy verdict's encrypted flag and confidence.
C12_UnknownBypass ==
    \A i \in Tasks :
        /\ "type" \in task[i].calls
        /\ task[i].pc # "typing"
        /\ task[i].ftype = "unknown"
        => /\ "probe" \notin task[i].calls
           /\ "entropy" \in task[i].calls
           /\ task[i].pc \in {"entQ", "entRun", "done", "raised"}
           /\ task[i].pc = "done" =>
                  LET e == EntropyAnalyze(dir[i].s, dir[i].ext)
                  IN  <<task[i].res.pp, task[i].res.enc, task[i].res.conf>>
                          = <<FALSE, e[1], e[2]>>

\* A file the classifier could not place was reported encrypted on its
\* entropy alone.
C12_Witness ==
    \E i \in Done :
        /\ dir[i].cls \in {"none", "fail"}
        /\ task[i].ftype = "unknown"
        /\ task[i].calls = {"type", "entropy"}
        /\ task[i].res.enc
        /\ FGt(task[i].res.conf, F0_7)

\* The library outcomes in which a handler met a fault that is not one of the
\* password / encrypted faults its format documents, and found no other
\* evidence of protection.
OtherFault(f, l) ==
    CASE f.cls = "office_openxml" ->
            l["msoffcrypto"] /\ f.p.a = "fault" /\ f.p.b \in {"nothing", "fault"}
      [] f.cls = "office_legacy" -> l["olefile"] /\ f.p.a = "fault"
      [] f.cls = "pdf" ->
            \/ l["pdf2"] /\ f.p.a \in {"readerr", "enc_pagefault"}
            \/ /\ l["pikepdf"]
               /\ ~l["pdf2"] \/ f.p.a = "fault"
               /\ f.p.b \in {"enc_fault", "fault"}
      [] f.cls = "zip" ->
            \/ f.p.a = "fault"
            \/ f.p.a = "badzip" /\ f.p.b \in {"runtime", "fault"}
      [] f.cls = "rar" -> l["rarfile"] /\ f.p.a = "fault"
      [] f.cls = "7z" -> l["py7zr"] /\ f.p.a = "fault"
      [] f.cls = "sqlite" -> f.p.a \in {"dberr", "fault"}
      [] f.cls = "pst" -> l["pypff"] /\ f.p.a \in {"err", "fault"}
      [] f.cls = "msg" -> l["olefile"] /\ f.p.a = "fault"
      [] f.cls = "libre_office" -> f.p.a \in {"content_rt", "fault"}
      [] OTHER -> FALSE

\* C13: a format detector's is_encrypted never raises to analyze_file, and
\* when it met a fault that is not a recognized password / encrypted fault of
\* its format its verdict is no-signal (false, false, 0.0): never
\* (true, true, 1.0), never a not-protected verdict with confidence > 0.
C13_FaultIsNoSignal ==
    \A i \in Tasks :
        /\ ~task[i].caught
        /\ /\ "probe" \in task[i].calls
           /\ task[i].pc \in {"entQ", "entRun", "done", "raised"}
           /\ OtherFault(dir[i], libs)
           => task[i].det = NoSignal

\* A handler that works through an optional parsing library has none of its
\* libraries installed (file_handlers.py 11-47).
LibraryAbsent(cls, l) ==
    CASE cls = "office_openxml"          -> ~l["msoffcrypto"]
      [] cls \in {"office_legacy", "msg"} -> ~l["olefile"]
      [] cls = "pdf"                     -> ~l["pdf2"] /\ ~l["pikepdf"]
      [] cls = "rar"                     -> ~l["rarfile"]
      [] cls = "7z"                      -> ~l["py7zr"]
      [] cls = "pst"                     -> ~l["pypff"]
      [] OTHER                           -> FALSE

\* C14: a format detector whose optional parsing library is absent returns
\* (false, false, 0.0) for every file, and the result of analyze_file for
\* such a file is the entropy fallback's alone.
C14_AbsentLibrary ==
    \A i \in Tasks :
        /\ "probe" \in task[i].calls
        /\ ~task[i].caught
        /\ task[i].pc \in {"entQ", "entRun", "done", "raised"}
        /\ LibraryAbsent(dir[i].cls, libs)
        => /\ task[i].det = NoSignal
           /\ "entropy" \in task[i].calls
           /\ task[i].pc = "done" =>
                  LET e == EntropyAnalyze(dir[i].s, dir[i].ext)
                  IN  <<task[i].res.pp, task[i].res.enc, task[i].res.conf>>
                          = <<FALSE, e[1], e[2]>>

\* Without a PDF library a PDF the library would have called encrypted was
\* decided by the entropy analysis, which found it encrypted.
C14_Witness ==
    \E i \in Done :
        /\ dir[i].cls = "pdf"
        /\ dir[i].p.a = "enc_pagepw"
        /\ ~libs["pdf2"] /\ ~libs["pikepdf"]
        /\ task[i].calls = {"type", "probe", "entropy"}
        /\ task[i].det = NoSignal
        /\ task[i].res.enc

\* The analyses decided by the entropy analysis alone: the type resolved to
\* 'unknown' and analyze_file returned the entropy verdict.
EntropyOnly ==
    {i \in Done : task[i].ftype = "unknown" /\ task[i].calls = {"type", "entropy"}}

\* C15 as stated: for a sample of identical bytes, of any byte value, in a
\* file whose extension earns no bonus, the entropy analysis returns
\* (false, 0.0).
C15_IdenticalBytesZero ==
    \A i \in EntropyOnly :
        /\ dir[i].ext = ".txt"
        /\ \E b \in 0..255 : dir[i].s = IdenticalSample(b)
        => ~task[i].res.enc /\ task[i].res.conf = F0_0

\* C15 amended: for a sample of identical bytes in a file whose extension
\* earns no bonus the entropy analysis returns false with a confidence that
\* is never 0.0: 0.1 for byte 0 (ASCII ratio 0 < 0.4) and for a printable
\* byte 32..126 (null ratio 0 < 0.01), 0.2 for the other bytes below 128
\* (both), and 0.1 + 0.1 + 0.1 = 0.30000000000000004 for a byte above 127
\* (both, and high-byte ratio 1 > 0.3).
C15_IdenticalBytesScore ==
    \A i \in EntropyOnly :
        \A b \in 0..255 :
            dir[i].ext = ".txt" /\ dir[i].s = IdenticalSample(b) =>
                /\ ~task[i].res.enc
                /\ task[i].res.conf =
                       IF b = 0 \/ (32 <= b /\ b <= 126) THEN F0_1
                       ELSE IF b <= 127 THEN FAdd(F0_1, F0_1)
                       ELSE FAdd(FAdd(F0_1, F0_1), F0_1)

\* A .txt file of identical bytes above 127 was given confidence
\* 0.30000000000000004.
C15_Witness ==
    \E i \in EntropyOnly :
        /\ dir[i].ext = ".txt"
        /\ dir[i].s = IdenticalSample(200)
        /\ ~task[i].res.enc
        /\ FGt(task[i].res.conf, F0_3)

\* C16: for a .gpg file whose sample has entropy above 7.8, the entropy
\* analysis alone returns encrypted = true with confidence >= 0.9, whatever
\* the skew, null-byte, ASCII and high-byte conditions are.
C16_GpgRandom ==
    \A i \in EntropyOnly :
        dir[i].ext = ".gpg" /\ dir[i].s.data /\ dir[i].s.band = 3 =>
            task[i].res.enc /\ FLe(F0_9, task[i].res.conf)

\* C17: for a plain .txt file whose bytes are all ASCII the result of
\* analyze_file is passwordProtected = false, encrypted = false and a
\* confidence below 0.5.
C17_AsciiText ==
    \A i \in Done :
        /\ dir[i].kind = "regular"
        /\ dir[i].ext = ".txt"
        /\ dir[i].cls \in {"none", "fail"}
        /\ dir[i].s \in AsciiSamples
        => /\ ~task[i].res.pp
           /\ ~task[i].res.enc
           /\ FLt(task[i].res.conf, F0_5)

\* An ASCII .txt file that meets the skew, null-byte and ASCII-ratio
\* conditions together was given 0.2 + 0.1 + 0.1, the most such a file gets.
C17_Witness ==
    \E i \in Done :
        /\ dir[i].ext = ".txt"
        /\ dir[i].cls = "none"
        /\ dir[i].s \in AsciiSamples
        /\ dir[i].s.skewLow /\ dir[i].s.nullLow /\ dir[i].s.asciiLow
        /\ task[i].calls = {"type", "entropy"}
        /\ ~task[i].res.enc
        /\ FGt(task[i].res.conf, F0_3)
        /\ FLt(task[i].res.conf, F0_5)

\* C18: for a ZIP archive with an entry whose encryption flag bit is set the
\* ZIP detector returns (true, true, 1.0) and analyze_file reports exactly
\* that, whatever the file's entropy: the entropy analysis is not run.
C18_ZipFlagged ==
    \A i \in Tasks :
        /\ dir[i].kind = "regular"
        /\ dir[i].cls = "zip"
        /\ dir[i].p.a = "flagged"
        /\ ~task[i].caught
        /\ task[i].pc \notin {"new", "typing", "probeQ", "probeRun"}
        => /\ task[i].pc = "done"
           /\ task[i].det = <<TRUE, TRUE, F1_0>>
           /\ "entropy" \notin task[i].calls
           /\ <<task[i].res.pp, task[i].res.enc, task[i].res.conf>>
                  = <<TRUE, TRUE, F1_0>>

\* A ZIP archive with a flagged entry and a sample on which the entropy
\* analysis would have said "not encrypted" was reported (true, true, 1.0).
C18_Witness ==
    \E i \in Done :
        /\ dir[i].cls = "zip"
        /\ dir[i].p.a = "flagged"
        /\ dir[i].s.data
        /\ ~EntropyAnalyze(dir[i].s, dir[i].ext)[1]
        /\ task[i].calls = {"type", "probe"}
        /\ task[i].res.pp /\ task[i].res.enc /\ task[i].res.conf = F1_0

\* C19: a scan that returns holds exactly one result per file the walk
\* listed: every listed file is the file field of exactly one result, no
\* other path is, each result comes from the one invocation made for its
\* file, and an empty tree gives an empty list.
C19_OneResultPerFile ==
    phase = "returned" =>
        /\ Len(results) = Len(dir)
        /\ \A i \in 1..Len(dir) :
               Cardinality({k \in DOMAIN results : results[k].file = i}) = 1
        /\ \A k \in DOMAIN results :
               /\ results[k].file \in 1..Len(dir)
               /\ task[results[k].file].pc = "done"
               /\ <<results[k].pp, results[k].enc, results[k].conf, results[k].dur>>
                      = LET r == task[results[k].file].res
                        IN  <<r.pp, r.enc, r.conf, r.dur>>
        /\ Len(dir) = 0 => results = <<>>

\* A concurrent scan of an empty file and an analysed file has returned a
\* result for each.
C19_Witness ==
    /\ phase = "returned"
    /\ mode = "async"
    /\ Len(dir) = 2
    /\ dir[1].kind = "empty"
    /\ dir[2].kind = "regular"
    /\ Len(results) = 2
    /\ results[1].file = 1 /\ results[2].file = 2
    /\ results[2].pp

\* C20: given a path that is neither an existing file nor a directory with
\* the batch flag, the command line reports the invalid path and analyzes
\* nothing, with or without the sync flag: no scan begins and no
\* analyze_file invocation takes a step.
C20_UsageError ==
    /\ cli.path # "none"
    /\ cli.path # "file"
    /\ ~(cli.path = "dir" /\ cli.batch)
    => /\ cli.out \in {"none", "error"}
       /\ phase = "idle"
       /\ scanNo = 0
       /\ results = <<>>
       /\ \A i \in Tasks : task[i].pc = "new" /\ task[i].calls = {}

\* A directory of two files that could be analyzed, given without the batch
\* flag and with the sync flag, was answered with the invalid-path message.
C20_Witness ==
    /\ cli.out = "error"
    /\ cli.path = "dir"
    /\ ~cli.batch
    /\ cli.sync
    /\ Len(dir) = 2
    /\ \A i \in Tasks : dir[i].kind = "regular" /\ task[i].pc = "new"

\* The increments of entropy.py 52-77 that a sample and an extension earn,
\* summed as decimals, in tenths.
DecimalScore(s, ext) ==
    (CASE s.band = 3 -> 7 [] s.band = 2 -> 5 [] s.band = 1 -> 3 [] OTHER -> 0)
    + (IF s.skewLow THEN 2 ELSE 0)
    + (IF s.nullLow THEN 1 ELSE 0)
    + (IF s.asciiLow THEN 1 ELSE 0)
    + (IF s.highHigh THEN 1 ELSE 0)
    - (IF ext \in HIGH_ENTROPY_FORMATS /\ s.band >= 1 THEN 2 ELSE 0)
    + (IF ext \in ENC_EXT THEN 2 ELSE 0)

\* The double that the literal n/10 denotes, n in 0..10.
Tenth(n) ==
    CASE n = 0 -> F0_0 [] n = 1 -> F0_1 [] n = 2 -> F0_2 [] n = 3 -> F0_3
      [] n = 4 -> F0_4 [] n = 5 -> F0_5 [] n = 6 -> F0_6 [] n = 7 -> F0_7
      [] n = 8 -> F0_8 [] n = 9 -> F0_9 [] OTHER -> F1_0

\* |a - b| in units of 2^-56, for doubles less than 1/2^28 apart.
FDist(a, b) ==
    LET d == (a[1] - b[1]) * Limb + (a[2] - b[2])
    IN  IF d < 0 THEN 0 - d ELSE d

\* C21: for every combination of the scoring conditions the entropy analysis
\* returns isEncrypted = true exactly when the sum of the listed increments
\* is more than 0.7, and as confidence that sum clamped to [0, 1] (the sum
\* in double arithmetic: within 2^-52 of the decimal sum); a sum of exactly
\* 0.7 gives isEncrypted = false with confidence 0.7.
C21_ScoreAndThreshold ==
    \A i \in EntropyOnly :
        dir[i].s.data =>
            LET n == DecimalScore(dir[i].s, dir[i].ext)
            IN  /\ task[i].res.enc <=> n > 7
                /\ task[i].res.conf =
                       FMin(F1_0, FMax(F0_0, EntropyScore(dir[i].s, dir[i].ext)))
                /\ FDist(task[i].res.conf, Tenth(Max(0, Min(10, n)))) <= 16
                /\ n = 7 => task[i].res.conf = F0_7

\* A .docx sample of entropy above 7.8 with a flat histogram: 0.7 + 0.2 - 0.2
\* is exactly 0.7, not encrypted, confidence 0.7.
C21_Witness ==
    \E i \in EntropyOnly :
        /\ dir[i].ext = ".docx"
        /\ dir[i].s.data /\ dir[i].s.band = 3 /\ dir[i].s.skewLow
        /\ ~dir[i].s.nullLow /\ ~dir[i].s.asciiLow /\ ~dir[i].s.highHigh
        /\ DecimalScore(dir[i].s, dir[i].ext) = 7
        /\ ~task[i].res.enc
        /\ task[i].res.conf = F0_7

\* C22: for each of the nine extensions .docx, .xlsx, .pptx, .ods, .odt,
\* .odp, .odg, .odf, .odm the entropy analysis subtracts 0.2 from the score
\* when the entropy is above 7.2; it subtracts nothing for them at a lower
\* entropy, and nothing for any other extension.  The score of the same
\* sample under .txt, which is in neither table, is the reference.
C22_ContainerDiscount ==
    \A i \in EntropyOnly :
        dir[i].s.data =>
            LET base  == EntropyScore(dir[i].s, ".txt")
                nine  == {".docx", ".xlsx", ".pptx", ".ods", ".odt", ".odp",
                          ".odg", ".odf", ".odm"}
                score == IF dir[i].ext \in nine /\ dir[i].s.band >= 1
                         THEN FSub(base, F0_2)
                         ELSE IF dir[i].ext \in {".gpg", ".enc", ".aes", ".crypt", ".pgp"}
                         THEN FAdd(base, F0_2)
                         ELSE base
            IN  /\ task[i].res.conf = FMin(F1_0, FMax(F0_0, score))
                /\ task[i].res.enc <=> FGt(score, F0_7)

\* An .odm sample of entropy in (7.5, 7.8] with a flat histogram and few
\* null bytes: 0.5 + 0.2 + 0.1 - 0.2, and the verdict that would have been
\* 'encrypted' under .txt is 'not encrypted'.
C22_Witness ==
    \E i \in EntropyOnly :
        /\ dir[i].ext = ".odm"
        /\ dir[i].s.data /\ dir[i].s.band = 2 /\ dir[i].s.skewLow /\ dir[i].s.nullLow
        /\ ~dir[i].s.asciiLow /\ ~dir[i].s.highHigh
        /\ FGt(EntropyScore(dir[i].s, ".txt"), F0_7)
        /\ ~task[i].res.enc
        /\ FLt(task[i].res.conf, F0_7)

\* The tasks that occupy a worker of an executor.
Holding == {i \in Tasks : task[i].slot # "none"}

\* C23: in concurrent mode a file's task occupies a worker slot only while
\* its own blocking call runs: the tasks holding a slot are exactly those
\* inside a blocking probe or entropy read (each awaits one offload at a
\* time, so it holds one slot at most), a task between its probe and its
\* entropy read holds none, and a task whose result is produced holds none.
C23_SlotOnlyWhileBlocking ==
    Gathers(mode) =>
        /\ Holding = Running
        /\ \A i \in Tasks :
               /\ task[i].pc \in {"new", "typing", "probeQ", "entQ"} => task[i].slot = "none"
               /\ task[i].pc = "done" => task[i].slot = "none"

\* One task has had its probe and waits, without a slot, for its entropy
\* read, while the other task's blocking call holds one.
C23_Witness ==
    /\ mode = "async"
    /\ \E i, j \in Tasks :
           /\ task[i].pc = "entQ"
           /\ "probe" \in task[i].calls
           /\ task[i].slot = "none"
           /\ task[j].pc = "probeRun"
           /\ task[j].slot # "none"

\* analyze_file on one file with no other task about (detector.py 48-88):
\* the validity check, the type, the handler's verdict, the entropy fallback.
AnalyzeAlone(f, l) ==
    IF ~IsAnalyzable(f) THEN NoSignal
    ELSE LET ft == TypeDetect(f)
             v0 == InitialVerdict(<<NewTask>>, 1)
             v1 == IF ft \in HandlerTags THEN HandlerVerdict(ft, l, f.p) ELSE v0
         IN  IF NeedsEntropy(v1[3])
             THEN Arbitrate(v1, EntropyAnalyze(f.s, f.ext))
             ELSE v1

\* C24: in a concurrent scan each task writes only its own accumulating
\* verdict and its own slot of the result collection: under every
\* interleaving of the tasks the verdict a task has accumulated when it
\* returns, and the result in the file's slot when the scan returns, is the
\* result of analyzing that file alone.
C24_OwnStateOnly ==
    Gathers(mode) =>
        /\ \A i \in Done :
               <<task[i].res.pp, task[i].res.enc, task[i].res.conf>>
                   = AnalyzeAlone(dir[i], libs)
        /\ phase = "returned" =>
               /\ DOMAIN results = DOMAIN dir
               /\ \A i \in DOMAIN results :
                      /\ results[i].file = i
                      /\ <<results[i].pp, results[i].enc, results[i].conf>>
                             = AnalyzeAlone(dir[i], libs)

\* A concurrent scan of two files with different verdicts has returned, and
\* the first file's only blocking call ended after the second file's: the
\* tasks were interleaved.
C24_Witness ==
    /\ mode = "async"
    /\ phase = "returned"
    /\ Len(results) = 2
    /\ task[1].calls = {"type", "probe"}
    /\ task[2].calls = {"type", "entropy"}
    /\ results[1].dur > 0
    /\ results[1].pp /\ ~results[2].pp

\* C25: for a legacy Office file whose compound file has the CompObj and
\* SummaryInformation streams and neither EncryptionInfo nor EncryptedPackage,
\* the OfficeLegacy detector returns (false, false, 0.5); 0.5 is not < 0.5, so
\* analyze_file makes no entropy read and returns (false, false, 0.5),
\* whatever the entropy of the file.
C25_LegacyHalf ==
    \A i \in Done :
        /\ task[i].ftype = "office_legacy"
        /\ dir[i].p.a = "compobj"
        /\ libs["olefile"]
        /\ ~task[i].caught
        => /\ task[i].det = <<FALSE, FALSE, F0_5>>
           /\ "entropy" \notin task[i].calls
           /\ task[i].res.pp = FALSE
           /\ task[i].res.enc = FALSE
           /\ task[i].res.conf = F0_5

\* Such a file, named .gpg and with a sample the entropy analysis would call
\* encrypted at confidence 1.0, was returned as (false, false, 0.5).
C25_Witness ==
    \E i \in Done :
        /\ task[i].ftype = "office_legacy"
        /\ dir[i].p.a = "compobj"
        /\ libs["olefile"]
        /\ task[i].calls = {"type", "probe"}
        /\ dir[i].ext = ".gpg"
        /\ EntropyAnalyze(dir[i].s, dir[i].ext) = <<TRUE, F1_0>>
        /\ ~task[i].res.enc
        /\ task[i].res.conf = F0_5

\* C26: for an archive with no flagged entry the ZIP detector returns
\* (false, false, 1.0) if the archive opens cleanly; if opening it raises
\* BadZipFile it makes a read probe of the first entry and returns
\* (true, true, 1.0) when the probe raises a fault whose message mentions
\* "encrypted"; in every other case it returns (false, false, 0.0).
C26_ZipUnflagged ==
    \A i \in Tasks :
        /\ task[i].ftype = "zip"
        /\ dir[i].p.a # "flagged"
        /\ ~task[i].caught
        /\ task[i].pc \in {"entQ", "entRun", "done"}
        => task[i].det =
               IF dir[i].p.a = "clean" THEN <<FALSE, FALSE, F1_0>>
               ELSE IF dir[i].p.a = "badzip" /\ dir[i].p.b = "encrypted"
                    THEN <<TRUE, TRUE, F1_0>>
               ELSE <<FALSE, FALSE, F0_0>>

\* An archive whose first open raised BadZipFile and whose read probe raised
\* the "encrypted" fault was returned as (true, true, 1.0) without an entropy
\* read.
C26_Witness ==
    \E i \in Done :
        /\ task[i].ftype = "zip"
        /\ dir[i].p = [a |-> "badzip", b |-> "encrypted"]
        /\ task[i].det = <<TRUE, TRUE, F1_0>>
        /\ task[i].calls = {"type", "probe"}
        /\ task[i].res.pp

\* C27: the MSG detector returns (true, true, 0.9) when the compound file
\* contains an EncryptedSummary stream, (false, false, 0.0) when the stream is
\* absent or the file is unreadable, and no other verdict for any file.
C27_MsgVerdicts ==
    \A i \in Tasks :
        /\ task[i].ftype = "msg"
        /\ ~task[i].caught
        /\ task[i].pc \in {"entQ", "entRun", "done"}
        => /\ task[i].det \in {<<TRUE, TRUE, F0_9>>, <<FALSE, FALSE, F0_0>>}
           /\ libs["olefile"] /\ dir[i].p.a = "encsummary" =>
                  task[i].det = <<TRUE, TRUE, F0_9>>
           /\ dir[i].p.a \in {"absent", "fault"} =>
                  task[i].det = <<FALSE, FALSE, F0_0>>

\* A message with the EncryptedSummary stream was returned as (true, true,
\* 0.9), with no entropy read.
C27_Witness ==
    \E i \in Done :
        /\ task[i].ftype = "msg"
        /\ libs["olefile"]
        /\ dir[i].p.a = "encsummary"
        /\ task[i].det = <<TRUE, TRUE, F0_9>>
        /\ task[i].calls = {"type", "probe"}
        /\ task[i].res.conf = F0_9

\* C28: in every result of analyze_file passwordProtected = true implies a
\* confidence of at least 0.9: no detector returns passwordProtected = true
\* with a confidence below 0.5, so the entropy fallback is never run on a
\* verdict that asserts password protection and never replaces its encrypted
\* flag or its confidence.
C28_ProtectedIsConfident ==
    \A i \in Tasks :
        /\ task[i].pc \in {"entQ", "entRun"} => ~task[i].v[1]
        /\ task[i].det[1] => FLe(F0_5, task[i].det[3])
        /\ task[i].pc = "done" /\ task[i].res.pp =>
               /\ FLe(F0_9, task[i].res.conf)
               /\ "entropy" \notin task[i].calls
               /\ <<task[i].res.pp, task[i].res.enc, task[i].res.conf>> = task[i].det

\* An OpenXML document whose core.xml holds the DocumentProtection marker,
\* with a sample that the entropy analysis would score (true, 1.0), was
\* returned as (true, false, 0.9): the weakest verdict asserting protection.
C28_Witness ==
    \E i \in Done :
        /\ task[i].ftype = "office_openxml"
        /\ dir[i].p = [a |-> "fault", b |-> "protected"]
        /\ dir[i].s.data
        /\ EntropyAnalyze(dir[i].s, dir[i].ext) = <<TRUE, F1_0>>
        /\ task[i].res.pp
        /\ ~task[i].res.enc
        /\ task[i].res.conf = F0_9

\* The file paths of a result list, in its order.
Paths(rs) == [k \in DOMAIN rs |-> rs[k].file]

\* C29: the concurrent scan_directory returns its results in the order in
\* which the walk listed the files, the i-th result being for the i-th path,
\* whatever the order in which the tasks complete; so it returns the same
\* sequence of paths as the sequential scan of the same tree.
C29_WalkOrder ==
    phase = "returned" =>
        /\ mode = "async" => \A k \in DOMAIN results : results[k].file = k
        /\ /\ scanNo >= 2
           /\ \/ prevMode \in SyncModes /\ mode = "async"
              \/ prevMode = "async" /\ mode \in SyncModes
           => Paths(prev) = Paths(results)

\* After a sequential scan, a concurrent scan of two files has returned in
\* which the second file's task completed before the first file's.
C29_Witness ==
    /\ phase = "returned"
    /\ prevMode = "sync_loop"
    /\ mode = "async"
    /\ Len(results) = 2
    /\ task[1].calls = {"type", "probe"}
    /\ task[2].calls = {"type", "entropy"}
    /\ task[1].start + task[1].res.dur > task[2].start + task[2].res.dur
    /\ results[1].file = 1 /\ results[2].file = 2
    /\ Paths(prev) = <<1, 2>>

\* C30: a concurrent scan of more files than there are workers, in which
\* every blocking call returns, eventually has every task returned (gather
\* returns): while a task is left some step can be taken, since no task
\* waits for a worker while it holds one, and so every waiting task is
\* eventually given a worker.
C30_ScanReturns ==
    /\ [](bulk.done < bulk.n => ENABLED NextBulk)
    /\ <>(bulk.done = bulk.n /\ BulkRunning = 0)

\* All the tasks of a scan of more files than the pool has workers have
\* returned.
C30_Witness ==
    /\ bulk.n > DefaultExecutorWorkers(cores)
    /\ bulk.done = bulk.n
    /\ bulk.probeQ + bulk.entQ + BulkRunning = 0

====
